---- MODULE Spec2Model ----
(***************************************************************************)
(* A model of src/src/main.py: the session-scoped streaming pipeline       *)
(* (AudioQueueService, TranscriptionQueueService, SessionEntity.process,   *)
(* SessionRepository and the use cases).                                   *)
(*                                                                         *)
(* Four specifications:                                                    *)
(*   Spec     the use-case layer: CreateSessionUseCase, AddAudioToSession- *)
(*            UseCase (with the SessionEntity.process loop it runs) and    *)
(*            GetTranscriptionsFromSessionUseCase;                          *)
(*   SpecLog  one TranscriptionQueueService driven directly by enqueue and *)
(*            dequeue calls;                                               *)
(*   SpecRace the same, with the dequeue loop taken one pop at a time and  *)
(*            enqueue calls running between the pops;                      *)
(*   SpecAudio the AudioQueueService of one SessionEntity driven directly  *)
(*            by enqueue and dequeue calls.                                *)
(***************************************************************************)
EXTENDS Integers, Sequences, FiniteSets, Bags, TLC

\* ------------------------------------------------------------------ bounds
MaxSessions == 2    \* SessionEntity objects created by add_audio calls
MaxIter == 2        \* iterations of one process loop that are explored
MaxCreates == 2     \* create-session calls
MaxBatch == 2       \* longest batch passed to one enqueue call of SpecLog
MaxOps == 3         \* calls made on the log of SpecLog and of SpecRace
MaxAudioLen == 2    \* longest audio passed to one enqueue call of SpecAudio
MaxCalls == 3       \* calls made on the audio queue of SpecAudio

VARIABLES
    some_bytes,   \* the placeholder src.placeholders.some_bytes (a constant)
    some_int,     \* the placeholder src.placeholders.some_int (a constant)
    sessions,     \* the SessionEntity objects SessionRepository.read made
                  \* for add_audio calls, in creation order
    issued,       \* the identifier values returned by CreateSessionUseCase
    lastGet,      \* the last completed GetTranscriptionsFromSessionUseCase
                  \* call (a sequence of at most one record)
    returned,     \* how many segments the get_transcriptions calls returned
    log,          \* SpecLog: TranscriptionQueueService._transcription_queue
    ops,          \* SpecLog: the calls made on the log so far
    draining,     \* SpecRace: the dequeue call in progress on the log (a
                  \* sequence of at most one record holding its memory list)
    target,       \* SpecAudio: the SessionEntity whose audio queue is called
    calls         \* SpecAudio: the calls made on the audio queue so far

vars == <<some_bytes, some_int, sessions, issued, lastGet, returned, log, ops,
          draining, target, calls>>

\* ----------------------------------------------------------------- helpers
\* The audio values passed to add_audio: no bytes, or one byte that differs
\* from the bytes tried for the placeholder some_bytes.
AudioValues == {<<>>, <<2>>}

RECURSIVE SeqsUpTo(_, _)
\* All sequences over S of length at most n.
SeqsUpTo(S, n) ==
    IF n = 0 THEN {<<>>}
    ELSE LET shorter == SeqsUpTo(S, n - 1)
         IN  shorter \cup {Append(q, x) : q \in shorter, x \in S}

IsPrefix(p, q) == Len(p) <= Len(q) /\ SubSeq(q, 1, Len(p)) = p

RECURSIVE Concat(_)
\* The concatenation of a sequence of sequences.
Concat(qs) == IF qs = <<>> THEN <<>> ELSE Head(qs) \o Concat(Tail(qs))

RECURSIVE SumLen(_)
SumLen(qs) == IF qs = <<>> THEN 0 ELSE Len(Head(qs)) + SumLen(Tail(qs))

BagOfSeq(q) ==
    LET vals == {q[i] : i \in 1..Len(q)}
    IN  [v \in vals |-> Cardinality({i \in 1..Len(q) : q[i] = v})]

\* ------------------------------------------------------------ placeholders
\* some_string is bound once by the import; every use yields the same value.
some_string == "some_string"

\* The values tried for the placeholders some_bytes and some_int.
SomeBytesValues == {<<>>, <<1>>}
SomeIntValues == {1}

\* ---------------------------------------------------------------- entities
\* IdentifierEntity._create_uuid: returns the placeholder.
IdentifierEntity_create_uuid == some_string

\* IdentifierEntity.__init__: self._id = self._create_uuid()
IdentifierEntity == [id |-> IdentifierEntity_create_uuid]

\* TranscriptionEntity.__init__
TranscriptionEntity(start, end, text) ==
    [start |-> start, end |-> end, text |-> text]

\* ------------------------------------------------------- AudioQueueService
\* AudioQueueService.__init__: self._audio_queue = some_bytes
AudioQueueService_init == some_bytes

\* A dequeue that also deletes the returned chunk from the head of the queue.
AudioQueueService_dequeue_deleting(audio_queue, duration_in_milliseconds) ==
    [audio_queue |-> SubSeq(audio_queue, Len(some_bytes) + 1, Len(audio_queue)),
     audio |-> some_bytes]

\* AudioQueueService.dequeue: returns AudioEntity(some_bytes); the queue is
\* not touched.
AudioQueueService_dequeue(audio_queue, duration_in_milliseconds) ==
    [audio_queue |-> audio_queue, audio |-> some_bytes]

\* An enqueue that puts the audio in front of the queue.
AudioQueueService_enqueue_prepending(audio_queue, audio) == audio \o audio_queue

\* AudioQueueService.enqueue: self._audio_queue += audio.audio_data
AudioQueueService_enqueue(audio_queue, audio) == audio_queue \o audio

\* AudioQueueService.not_empty: bool(self._audio_queue)
AudioQueueService_not_empty(audio_queue) == audio_queue # <<>>

\* ----------------------------------------------- TranscriptionQueueService
TranscriptionQueueService_init == <<>>

RECURSIVE TranscriptionQueueService_dequeue_loop_short(_, _)
\* A drain loop that stops one element early (while len(queue) > 1).
TranscriptionQueueService_dequeue_loop_short(transcription_queue, memory) ==
    IF Len(transcription_queue) > 1
    THEN TranscriptionQueueService_dequeue_loop_short(
             SubSeq(transcription_queue, 1, Len(transcription_queue) - 1),
             Append(memory, transcription_queue[Len(transcription_queue)]))
    ELSE [transcription_queue |-> transcription_queue, memory |-> memory]

RECURSIVE TranscriptionQueueService_dequeue_loop(_, _)
\* while self._transcription_queue: memory.append(queue.pop())
TranscriptionQueueService_dequeue_loop(transcription_queue, memory) ==
    IF transcription_queue # <<>>
    THEN TranscriptionQueueService_dequeue_loop(
             SubSeq(transcription_queue, 1, Len(transcription_queue) - 1),
             Append(memory, transcription_queue[Len(transcription_queue)]))
    ELSE [transcription_queue |-> transcription_queue, memory |-> memory]

\* A pop whose element is dropped instead of appended to memory.
TranscriptionQueueService_dequeue_step_dropping(transcription_queue, memory) ==
    [transcription_queue |->
         SubSeq(transcription_queue, 1, Len(transcription_queue) - 1),
     memory |-> memory]

\* One iteration of the loop of dequeue: memory.append(queue.pop())
TranscriptionQueueService_dequeue_step(transcription_queue, memory) ==
    [transcription_queue |->
         SubSeq(transcription_queue, 1, Len(transcription_queue) - 1),
     memory |-> Append(memory, transcription_queue[Len(transcription_queue)])]

\* TranscriptionQueueService.dequeue
TranscriptionQueueService_dequeue(transcription_queue) ==
    TranscriptionQueueService_dequeue_loop(transcription_queue, <<>>)

\* TranscriptionQueueService.enqueue: self._transcription_queue += transcriptions
TranscriptionQueueService_enqueue(transcription_queue, transcriptions) ==
    transcription_queue \o transcriptions

\* ----------------------------------------------------------- SessionEntity
\* SessionEntity.__init__: a fresh audio queue and a fresh transcription queue.
SessionEntity_init ==
    [audio_queue |-> AudioQueueService_init,
     transcription_queue |-> TranscriptionQueueService_init]

\* The attributes SessionEntity.__init__ sets; the class sets no other.
SessionEntity_attributes ==
    {"audio_queue", "transcription_queue", "audio_recognition"}

\* SessionRepository.read: return SessionEntity(), whatever the identifier.
SessionRepository_read(identifier) == SessionEntity_init

\* The loop condition of SessionEntity.process: not_empty() is called without
\* await, so the condition is a coroutine object, which is always true.
ProcessLoopCondition(audio_queue) == TRUE

\* AudioRecognitionService.transcribe: return some_string
AudioRecognitionService_transcribe(audio) == some_string

\* ------------------------------------------------------------------- state
\* Whether a pass run for the identifier is inside a transcribe call.
InTranscribe(identifier) ==
    \E s \in 1..Len(sessions) :
        /\ sessions[s].identifier = identifier.id
        /\ sessions[s].pc = "transcribe"

\* One SessionEntity object made by SessionRepository.read for an add_audio
\* call, with the position of that call:
\*   pc          "while": at the loop condition of process;
\*               "transcribe": inside the awaited transcribe call;
\*               "raised": the transcribe call raised and the exception left
\*               process and the use case (neither catches it);
\*   audio       the chunk handed to the transcribe call in progress;
\* and the history the properties are stated on:
\*   appended    the bytes enqueued by the add_audio call;
\*   consumed    the chunks handed to transcribe, in order;
\*   emptyStart  whether an iteration began on an empty audio queue;
\*   during      whether a pass for the same identifier was inside a
\*               transcribe call when the audio was appended.
NewSession(identifier, session, audio) ==
    [identifier |-> identifier.id,
     audio_queue |-> session.audio_queue,
     transcription_queue |-> session.transcription_queue,
     pc |-> "while",
     audio |-> <<>>,
     appended |-> audio,
     consumed |-> <<>>,
     emptyStart |-> FALSE,
     during |-> InTranscribe(identifier)]

IsKnown(identifier) == \E i \in 1..Len(issued) : issued[i] = identifier.id

\* Segments enqueued so far by the passes run for an identifier.
RECURSIVE ProducedFor(_, _)
ProducedFor(id, n) ==
    IF n = 0 THEN 0
    ELSE ProducedFor(id, n - 1)
         + (IF sessions[n].identifier = id
            THEN Len(sessions[n].transcription_queue) ELSE 0)

Init ==
    /\ some_bytes \in SomeBytesValues
    /\ some_int \in SomeIntValues
    /\ sessions = <<>>
    /\ issued = <<>>
    /\ lastGet = <<>>
    /\ returned = [id \in {IdentifierEntity.id} |-> 0]
    /\ log = TranscriptionQueueService_init
    /\ ops = <<>>
    /\ draining = <<>>
    /\ target = SessionEntity_init
    /\ calls = <<>>

\* ------------------------------------------------------------------ Spec
\* CreateSessionUseCase.command: a new IdentifierEntity, handed to
\* SessionRepository.create (which stores nothing) and returned.
CreateSession ==
    /\ Len(issued) < MaxCreates
    /\ issued' = Append(issued, IdentifierEntity.id)
    /\ UNCHANGED <<some_bytes, some_int, sessions, lastGet, returned, log, ops,
                   draining, target, calls>>

\* AddAudioToSessionUseCase.command up to the call of process: read the
\* session, enqueue the audio.
AddAudio(identifier, audio) ==
    /\ Len(sessions) < MaxSessions
    /\ LET session == SessionRepository_read(identifier)
           queued == [session EXCEPT !.audio_queue =
                          AudioQueueService_enqueue(@, audio)]
       IN  sessions' = Append(sessions,
               NewSession(identifier, queued, audio))
    /\ UNCHANGED <<some_bytes, some_int, issued, lastGet, returned, log, ops,
                   draining, target, calls>>

\* SessionEntity.process, one iteration up to the awaited transcribe call:
\* the loop condition, then the dequeue of a chunk. The await of transcribe
\* is where the event loop may run the steps of other calls; the queue
\* methods hold no await of their own and run in one piece.
ProcessDequeue(s) ==
    /\ sessions[s].pc = "while"
    /\ Len(sessions[s].consumed) < MaxIter
    /\ ProcessLoopCondition(sessions[s].audio_queue)
    /\ LET got == AudioQueueService_dequeue(sessions[s].audio_queue, some_int)
       IN  sessions' = [sessions EXCEPT
               ![s].emptyStart =
                   @ \/ ~AudioQueueService_not_empty(sessions[s].audio_queue),
               ![s].audio_queue = got.audio_queue,
               ![s].audio = got.audio,
               ![s].consumed = Append(@, got.audio),
               ![s].pc = "transcribe"]
    /\ UNCHANGED <<some_bytes, some_int, issued, lastGet, returned, log, ops,
                   draining, target, calls>>

\* The rest of the iteration with the transcription queue shared by all
\* sessions (a list held by the class, not by the instance).
ProcessEnqueue_shared(s) ==
    /\ sessions[s].pc = "transcribe"
    /\ LET transcription == TranscriptionEntity(some_int, some_int,
               AudioRecognitionService_transcribe(sessions[s].audio))
       IN  sessions' = [t \in 1..Len(sessions) |->
               [sessions[t] EXCEPT
                   !.transcription_queue =
                       TranscriptionQueueService_enqueue(@, <<transcription>>),
                   !.audio = IF t = s THEN <<>> ELSE @,
                   !.pc = IF t = s THEN "while" ELSE @]]
    /\ UNCHANGED <<some_bytes, some_int, issued, lastGet, returned, log, ops,
                   draining, target, calls>>

\* SessionEntity.process, the rest of the iteration: transcribe returns, the
\* TranscriptionEntity is built and enqueued, and the loop goes round.
ProcessEnqueue(s) ==
    /\ sessions[s].pc = "transcribe"
    /\ LET transcription == TranscriptionEntity(some_int, some_int,
               AudioRecognitionService_transcribe(sessions[s].audio))
       IN  sessions' = [sessions EXCEPT
               ![s].transcription_queue =
                   TranscriptionQueueService_enqueue(@, <<transcription>>),
               ![s].audio = <<>>,
               ![s].pc = "while"]
    /\ UNCHANGED <<some_bytes, some_int, issued, lastGet, returned, log, ops,
                   draining, target, calls>>

\* The recognition capability fails: the awaited transcribe call raises.
\* process has no handler, nor has the use case: the pass ends there.
TranscribeFails(s) ==
    /\ sessions[s].pc = "transcribe"
    /\ sessions' = [sessions EXCEPT ![s].pc = "raised"]
    /\ UNCHANGED <<some_bytes, some_int, issued, lastGet, returned, log, ops,
                   draining, target, calls>>

\* A get_transcriptions call that also calls session.process(), as add_audio
\* does.
GetTranscriptions_processing(identifier) ==
    /\ Len(sessions) < MaxSessions
    /\ LET session == SessionRepository_read(identifier)
           drained == TranscriptionQueueService_dequeue(
                          session.transcription_queue)
       IN  /\ lastGet' = <<[identifier |-> identifier.id,
                            outcome |-> "returned",
                            during |-> InTranscribe(identifier),
                            value |-> drained.memory]>>
           /\ returned' = [returned EXCEPT ![identifier.id] =
                               @ + Len(drained.memory)]
           /\ sessions' = Append(sessions,
                               NewSession(identifier, session, <<>>))
    /\ UNCHANGED <<some_bytes, some_int, issued, log, ops,
                   draining, target, calls>>

\* A get_transcriptions call that waits while a pass for the identifier is
\* inside a transcribe call (the drain taken under the lock of the pass).
GetTranscriptions_waiting(identifier) ==
    /\ ~InTranscribe(identifier)
    /\ LET session == SessionRepository_read(identifier)
           drained == TranscriptionQueueService_dequeue(
                          session.transcription_queue)
       IN  /\ lastGet' = <<[identifier |-> identifier.id,
                            outcome |-> "returned",
                            during |-> InTranscribe(identifier),
                            value |-> drained.memory]>>
           /\ returned' = [returned EXCEPT ![identifier.id] =
                               @ + Len(drained.memory)]
    /\ UNCHANGED <<some_bytes, some_int, sessions, issued, log, ops,
                   draining, target, calls>>

\* GetTranscriptionsFromSessionUseCase.command: read the session, drain its
\* transcription queue, return what was drained. The record of the call
\* also keeps whether a pass for the identifier was inside a transcribe call
\* (during).
GetTranscriptions(identifier) ==
    /\ LET session == SessionRepository_read(identifier)
           drained == TranscriptionQueueService_dequeue(
                          session.transcription_queue)
       IN  /\ lastGet' = <<[identifier |-> identifier.id,
                            outcome |-> "returned",
                            during |-> InTranscribe(identifier),
                            value |-> drained.memory]>>
           /\ returned' = [returned EXCEPT ![identifier.id] =
                               @ + Len(drained.memory)]
    /\ UNCHANGED <<some_bytes, some_int, sessions, issued, log, ops,
                   draining, target, calls>>

Next ==
    \/ CreateSession
    \/ \E audio \in AudioValues :
           AddAudio(IdentifierEntity, audio)
    \/ \E s \in 1..Len(sessions) : ProcessDequeue(s)
    \/ \E s \in 1..Len(sessions) : ProcessEnqueue(s)
    \/ \E s \in 1..Len(sessions) : TranscribeFails(s)
    \/ GetTranscriptions(IdentifierEntity)

Spec == Init /\ [][Next]_vars

\* ----------------------------------------------------------------- SpecLog
\* The segments and batches the calls on the log are drawn from.
Segments ==
    {TranscriptionEntity(start, end, some_string) :
         start \in {0, 1}, end \in {1}}

Batches == SeqsUpTo(Segments, MaxBatch) \ {<<>>}

\* Everything enqueued since the last dequeue, in the order it was enqueued.
RECURSIVE Queued(_)
Queued(done) ==
    IF done = <<>> \/ done[Len(done)].op = "dequeue" THEN <<>>
    ELSE Queued(SubSeq(done, 1, Len(done) - 1)) \o done[Len(done)].arg

\* A call of TranscriptionQueueService.enqueue on the log.
LogEnqueue(transcriptions) ==
    /\ Len(ops) < MaxOps
    /\ log' = TranscriptionQueueService_enqueue(log, transcriptions)
    /\ ops' = Append(ops, [op |-> "enqueue", arg |-> transcriptions,
                           queued |-> Queued(ops), ret |-> <<>>])
    /\ UNCHANGED <<some_bytes, some_int, sessions, issued, lastGet, returned,
                   draining, target, calls>>

\* A call of TranscriptionQueueService.dequeue on the log.
LogDequeue ==
    /\ Len(ops) < MaxOps
    /\ LET drained == TranscriptionQueueService_dequeue(log)
       IN  /\ log' = drained.transcription_queue
           /\ ops' = Append(ops, [op |-> "dequeue", arg |-> <<>>,
                                  queued |-> Queued(ops),
                                  ret |-> drained.memory])
    /\ UNCHANGED <<some_bytes, some_int, sessions, issued, lastGet, returned,
                   draining, target, calls>>

NextLog ==
    \/ \E transcriptions \in Batches : LogEnqueue(transcriptions)
    \/ LogDequeue

SpecLog == Init /\ [][NextLog]_vars

\* ---------------------------------------------------------------- SpecRace
\* The dequeue call taken statement by statement, with enqueue calls running
\* between its statements. The event loop runs each call in one piece (the
\* methods hold no await), which is one of the schedules explored here.

\* A call of TranscriptionQueueService.enqueue on the log, possibly while a
\* dequeue call is in its loop.
RaceEnqueue(transcriptions) ==
    /\ Len(ops) + Len(draining) < MaxOps
    /\ log' = TranscriptionQueueService_enqueue(log, transcriptions)
    /\ ops' = Append(ops, [op |-> "enqueue", arg |-> transcriptions,
                           queued |-> Queued(ops), ret |-> <<>>])
    /\ draining' = [i \in 1..Len(draining) |->
                        [draining[i] EXCEPT !.overlapped =
                             @ \/ draining[i].memory # <<>>]]
    /\ UNCHANGED <<some_bytes, some_int, sessions, issued, lastGet, returned,
                   target, calls>>

\* dequeue begins: memory = []
DrainBegin ==
    /\ draining = <<>>
    /\ Len(ops) < MaxOps
    /\ draining' = <<[memory |-> <<>>, overlapped |-> FALSE]>>
    /\ UNCHANGED <<some_bytes, some_int, sessions, issued, lastGet, returned,
                   log, ops, target, calls>>

\* dequeue, the loop condition holds: one pop.
DrainPop ==
    /\ draining # <<>>
    /\ log # <<>>
    /\ LET popped == TranscriptionQueueService_dequeue_step(
                         log, draining[1].memory)
       IN  /\ log' = popped.transcription_queue
           /\ draining' = <<[draining[1] EXCEPT !.memory = popped.memory]>>
    /\ UNCHANGED <<some_bytes, some_int, sessions, issued, lastGet, returned,
                   ops, target, calls>>

\* dequeue, the loop condition fails: return memory.
DrainReturn ==
    /\ draining # <<>>
    /\ log = <<>>
    /\ ops' = Append(ops, [op |-> "dequeue", arg |-> <<>>,
                           queued |-> Queued(ops),
                           ret |-> draining[1].memory,
                           overlapped |-> draining[1].overlapped])
    /\ draining' = <<>>
    /\ UNCHANGED <<some_bytes, some_int, sessions, issued, lastGet, returned,
                   log, target, calls>>

NextRace ==
    \/ \E transcriptions \in Batches : RaceEnqueue(transcriptions)
    \/ DrainBegin
    \/ DrainPop
    \/ DrainReturn

SpecRace == Init /\ [][NextRace]_vars

\* --------------------------------------------------------------- SpecAudio
\* The audio and the durations the calls on the audio queue are drawn from.
Audios == SeqsUpTo({1, 2}, MaxAudioLen)

Durations == {1, 2}

\* A call of AudioQueueService.enqueue on the audio queue of the session.
AudioEnqueue(audio) ==
    /\ Len(calls) < MaxCalls
    /\ target' = [target EXCEPT !.audio_queue =
                      AudioQueueService_enqueue(@, audio)]
    /\ calls' = Append(calls, [op |-> "enqueue", arg |-> audio,
                               before |-> target, after |-> target',
                               ret |-> <<>>])
    /\ UNCHANGED <<some_bytes, some_int, sessions, issued, lastGet, returned,
                   log, ops, draining>>

\* A call of AudioQueueService.dequeue on the audio queue of the session.
AudioDequeue(duration_in_milliseconds) ==
    /\ Len(calls) < MaxCalls
    /\ LET got == AudioQueueService_dequeue(target.audio_queue,
                                            duration_in_milliseconds)
       IN  /\ target' = [target EXCEPT !.audio_queue = got.audio_queue]
           /\ calls' = Append(calls, [op |-> "dequeue",
                                      arg |-> duration_in_milliseconds,
                                      before |-> target, after |-> target',
                                      ret |-> got.audio])
    /\ UNCHANGED <<some_bytes, some_int, sessions, issued, lastGet, returned,
                   log, ops, draining>>

NextAudio ==
    \/ \E audio \in Audios : AudioEnqueue(audio)
    \/ \E duration_in_milliseconds \in Durations :
           AudioDequeue(duration_in_milliseconds)

SpecAudio == Init /\ [][NextAudio]_vars

\* ------------------------------------------------------------- properties
\* The bytes put in the audio queue of session object s: what the queue held
\* when it was made, then what add_audio enqueued.
Stream(s) == AudioQueueService_init \o sessions[s].appended

\* C1: a dequeue of the transcription log returns the segments queued at the
\* call in the order they were enqueued, oldest first.
C1_DrainIsFifo ==
    \A i \in 1..Len(ops) :
        ops[i].op = "dequeue" => ops[i].ret = ops[i].queued

\* C2: a dequeue of the transcription log returns every segment queued at the
\* call exactly once and leaves the log empty; a dequeue of a log nothing
\* was enqueued to, and a dequeue right after a dequeue, return nothing.
C2_DrainReturnsAllOnce ==
    \A i \in 1..Len(ops) :
        ops[i].op = "dequeue" =>
            /\ BagOfSeq(ops[i].ret) = BagOfSeq(ops[i].queued)
            /\ (i = Len(ops) => log = <<>>)
            /\ (i = 1 => ops[i].ret = <<>>)
            /\ (i > 1 /\ ops[i - 1].op = "dequeue" => ops[i].ret = <<>>)

\* A batch of two different segments was enqueued, drained, and the log was
\* drained again.
C2_Witness ==
    /\ Len(ops) = 3
    /\ ops[1].op = "enqueue" /\ Len(ops[1].arg) = 2
    /\ ops[1].arg[1] # ops[1].arg[2]
    /\ ops[2].op = "dequeue" /\ Len(ops[2].ret) = 2
    /\ ops[3].op = "dequeue"

\* C3: the segments the passes of add_audio calls produced for an identifier
\* that create returned, and that no get_transcriptions call returned yet,
\* are what the next get_transcriptions call for that identifier returns
\* (one appended chunk: one segment).
C3_SegmentsReachGet ==
    [][GetTranscriptions(IdentifierEntity) /\ IsKnown(IdentifierEntity) =>
           Len(lastGet'[1].value) =
               ProducedFor(IdentifierEntity.id, Len(sessions))
               - returned[IdentifierEntity.id]]_vars

\* C4: the chunks handed to transcribe, concatenated, are the bytes put in
\* the audio queue, each byte once: at every moment they are a prefix of
\* those bytes.
C4_ConsumedIsAppended ==
    \A s \in 1..Len(sessions) :
        IsPrefix(Concat(sessions[s].consumed), Stream(s))

\* C5: two add_audio calls for one identifier are never both inside a
\* transcribe call, and the recognition calls of a pass are never handed more
\* bytes than were put in the audio queue (no chunk is recognized twice).
C5_OnePassPerSession ==
    /\ \A s, t \in 1..Len(sessions) :
           /\ s # t
           /\ sessions[s].identifier = sessions[t].identifier
           /\ sessions[s].pc = "transcribe"
           => sessions[t].pc # "transcribe"
    /\ \A s \in 1..Len(sessions) :
           SumLen(sessions[s].consumed) <= Len(Stream(s))

\* C7: the process loop exits when the audio queue is empty at the start of
\* an iteration: no iteration begins on an empty audio queue, so a pass
\* started on an empty queue performs no iteration.
C7_PassExitsOnEmptyQueue ==
    \A s \in 1..Len(sessions) : ~sessions[s].emptyStart

\* C8: add_audio and get_transcriptions with an identifier no create call
\* returned end with the SessionNotFound outcome: no add_audio call gets past
\* the read of such a session, and no such get_transcriptions call returns.
C8_UnknownIdentifierNotFound ==
    [][/\ (\E audio \in AudioValues : AddAudio(IdentifierEntity, audio))
           => IsKnown(IdentifierEntity)
       /\ GetTranscriptions(IdentifierEntity) /\ ~IsKnown(IdentifierEntity)
           => lastGet'[1].outcome = "SessionNotFound"]_vars

\* C9: the identifiers returned by create-session calls are pairwise
\* distinct.
C9_IdentifiersDistinct ==
    \A i, j \in 1..Len(issued) : i # j => issued[i] # issued[j]

C11_FailureNotSurfaced ==
    \A s \in 1..Len(sessions) : sessions[s].pc # "raised"

\* Everything the calls of a history enqueued, and everything its dequeue
\* calls returned.
RECURSIVE AllEnqueued(_)
AllEnqueued(done) ==
    IF done = <<>> THEN <<>>
    ELSE AllEnqueued(SubSeq(done, 1, Len(done) - 1)) \o done[Len(done)].arg

RECURSIVE AllReturned(_)
AllReturned(done) ==
    IF done = <<>> THEN <<>>
    ELSE AllReturned(SubSeq(done, 1, Len(done) - 1)) \o done[Len(done)].ret

\* C12: with enqueue calls running between the pops of a dequeue call, the
\* dequeue returns whole batches only (the batches enqueued since the last
\* dequeue returned, each in full), and every enqueued segment is in exactly
\* one place: returned by one dequeue, in the memory of the running one, or
\* still in the log.
C12_DrainNeverSplitsBatch ==
    /\ \A i \in 1..Len(ops) :
           ops[i].op = "dequeue" =>
               BagOfSeq(ops[i].ret) = BagOfSeq(ops[i].queued)
    /\ BagOfSeq(AllReturned(ops) \o log
                \o (IF draining = <<>> THEN <<>> ELSE draining[1].memory))
           = BagOfSeq(AllEnqueued(ops))

\* A dequeue returned after a batch of two was enqueued between two of its
\* pops, and the batch is among what it returned.
C12_Witness ==
    \E i \in 1..Len(ops) :
        /\ ops[i].op = "dequeue" /\ ops[i].overlapped
        /\ Len(ops[i].ret) = 3
        /\ ops[i - 1].op = "enqueue" /\ Len(ops[i - 1].arg) = 2

\* C13: a step of an add_audio call, of its pass or of a get_transcriptions
\* call leaves the audio queue and the transcription log of every other
\* session as they were, and a get_transcriptions call returns segments of
\* the log of the session it read only.
C13_SessionsIsolated ==
    [][/\ \A t \in 1..Len(sessions) :
              \/ sessions'[t] = sessions[t]
              \/ ~(\/ \E s \in 1..Len(sessions) :
                          /\ s # t
                          /\ \/ ProcessDequeue(s)
                             \/ ProcessEnqueue(s)
                             \/ TranscribeFails(s)
                   \/ \E audio \in AudioValues :
                          AddAudio(IdentifierEntity, audio)
                   \/ GetTranscriptions(IdentifierEntity))
       /\ GetTranscriptions(IdentifierEntity) =>
              BagOfSeq(lastGet'[1].value) = BagOfSeq(
                  SessionRepository_read(IdentifierEntity)
                      .transcription_queue)]_vars

\* The pass of a second session produced a segment while the first session,
\* untouched since its audio was appended, existed, and a get_transcriptions
\* call returned.
C13_Witness ==
    /\ Len(sessions) = 2
    /\ Len(sessions[2].transcription_queue) >= 1
    /\ sessions[1].transcription_queue = <<>>
    /\ sessions[1].consumed = <<>>
    /\ lastGet # <<>>

\* C14: the segments of a session carry the audio time consumed so far:
\* 0 <= start <= end, each start is the end of the segment before it, and
\* the starts strictly increase.
C14_TimestampsCumulative ==
    \A s \in 1..Len(sessions) :
        LET q == sessions[s].transcription_queue
        IN  \A k \in 1..Len(q) :
                /\ 0 <= q[k].start /\ q[k].start <= q[k].end
                /\ k > 1 => /\ q[k].start = q[k - 1].end
                            /\ q[k].start > q[k - 1].start

\* C15: a session keeps the counters processed_count and unprocessed_count,
\* both >= 0: processed_count counts the chunks recognized, unprocessed_count
\* is the audio left in the queue, and the audio counted as processed plus
\* the audio left is the audio put in the queue.
C15_ProgressCounters ==
    \A s \in 1..Len(sessions) :
        /\ {"processed_count", "unprocessed_count"}
               \subseteq SessionEntity_attributes
        /\ sessions[s].processed_count >= 0
        /\ sessions[s].unprocessed_count >= 0
        /\ sessions[s].processed_count = Len(sessions[s].transcription_queue)
        /\ sessions[s].unprocessed_count = Len(sessions[s].audio_queue)
        /\ SumLen(sessions[s].consumed) + sessions[s].unprocessed_count
               = Len(Stream(s))

\* C16: while a pass is inside a transcribe call, a get_transcriptions call
\* and (as long as the model admits another session, MaxSessions) the append
\* of an add_audio call for the same identifier can run at once: neither
\* waits for the recognition call.
C16_NoWaitOnRecognition ==
    InTranscribe(IdentifierEntity) =>
        /\ ENABLED GetTranscriptions(IdentifierEntity)
        /\ Len(sessions) < MaxSessions =>
               \A audio \in AudioValues :
                   ENABLED AddAudio(IdentifierEntity, audio)

\* A pass is inside a transcribe call; meanwhile an add_audio call appended
\* its audio and a get_transcriptions call returned.
C16_Witness ==
    /\ Len(sessions) = 2
    /\ sessions[1].pc = "transcribe" /\ sessions[1].transcription_queue = <<>>
    /\ sessions[2].during
    /\ lastGet # <<>> /\ lastGet[1].during

\* C17: audio appended while a pass for the identifier is inside a
\* transcribe call is left to that pass or the next one: the add_audio call
\* that appended it runs no pass of its own (no iteration, no recognition
\* call).
C17_AppendsCoalesced ==
    \A s \in 1..Len(sessions) :
        sessions[s].during => sessions[s].consumed = <<>>

\* C18: a dequeue of the audio queue takes what it returns from the head of
\* the queue: the returned bytes followed by the new queue are the old queue,
\* and on an empty queue it returns no bytes and leaves the queue empty.
C18_DequeueTakesHead ==
    \A i \in 1..Len(calls) :
        calls[i].op = "dequeue" =>
            /\ calls[i].ret \o calls[i].after.audio_queue
                   = calls[i].before.audio_queue
            /\ calls[i].before.audio_queue = <<>> =>
                   /\ calls[i].ret = <<>>
                   /\ calls[i].after.audio_queue = <<>>

\* C19: an enqueue of the audio queue puts the bytes at the tail and changes
\* nothing else: the new queue is the old queue followed by the bytes, and
\* the transcription log of the session is as it was.
C19_EnqueueAppendsAtTail ==
    \A i \in 1..Len(calls) :
        calls[i].op = "enqueue" =>
            /\ calls[i].after.audio_queue
                   = calls[i].before.audio_queue \o calls[i].arg
            /\ calls[i].after.transcription_queue
                   = calls[i].before.transcription_queue

\* Two different bytes were enqueued on a queue that held bytes already.
C19_Witness ==
    \E i \in 1..Len(calls) :
        /\ calls[i].op = "enqueue"
        /\ calls[i].before.audio_queue # <<>>
        /\ Len(calls[i].arg) = 2 /\ calls[i].arg[1] # calls[i].arg[2]

\* C20: a get_transcriptions call only drains: it starts no pass, makes no
\* recognition call and changes no audio queue, so the sessions and the
\* passes running on them are as they were.
C20_GetOnlyDrains ==
    [][GetTranscriptions(IdentifierEntity) => sessions' = sessions]_vars

\* A get_transcriptions call returned while a pass whose audio queue holds
\* bytes was inside a transcribe call.
C20_Witness ==
    /\ lastGet # <<>> /\ lastGet[1].during
    /\ \E s \in 1..Len(sessions) :
           sessions[s].pc = "transcribe" /\ sessions[s].audio_queue # <<>>

====
